---- MODULE Spec2Model ----
(***************************************************************************)
(* Model of src/randomx/program.rs: the RandomX program decoder.           *)
(*                                                                         *)
(* A 64-bit instruction word (i64) is a tuple of 8 bytes, least            *)
(* significant byte first, so that bytes & 0xFF is word[1],              *)
(* (bytes & 0xFF00) >> 8 is word[2], and so on.  A 128-bit entropy value *)
(* (m128) is a tuple of 16 bytes, least significant byte first.            *)
(*                                                                         *)
(* Store values are tuples of their display names: <<"r3">>, <<"NONE">>,   *)
(* and <<"L1", "r3">> for Store::L1(Box::new(Store::R3)).                  *)
(* Option<i32> is <<>> for None and <<x>> for Some(x).                     *)
(***************************************************************************)
EXTENDS Integers, Sequences, FiniteSets, TLC

VARIABLES
    bytes,            \* from_bytes: the argument, a sequence of m128
    overflow_checks,  \* from_bytes: whether the build checks integer overflow
    i,                \* from_bytes: the loop index (0-based, as in the source)
    program,          \* from_bytes: the Vec<Instr> being built
    panic,            \* from_bytes: the panic message, "" while none
    pc,               \* position of the running function
    word,             \* decode_instruction: the argument
    instr,            \* decode_instruction: the Instr returned
    text              \* Display for Instr: the text written

vars == <<bytes, overflow_checks, i, program, panic, pc, word, instr, text>>

-----------------------------------------------------------------------------
(* Constants of the source.                                                *)

MAX_FLOAT_REG == 4
MAX_REG == 8
STORE_L3_CONDITION == 14
SCRATCHPAD_L3_MASK == 2097144

REG_NEEDS_DISPLACEMENT_R4 == <<"r4">>

REG_NEEDS_DISPLACEMENT == <<"r5">>

\* A plausible slip in the table: IMUL_M ends one byte late.
Opcode_IMUL_M_late ==
    [NOP |-> 0, IADD_RS |-> 16, IADD_M |-> 23, ISUB_R |-> 39, ISUB_M |-> 46,
     IMUL_R |-> 62, IMUL_M |-> 67, IMULH_R |-> 70, IMULH_M |-> 71,
     ISMULH_R |-> 75, ISMULH_M |-> 76, IMUL_RCP |-> 84, INEG_R |-> 86,
     IXOR_R |-> 101, IXOR_M |-> 106, IROR_R |-> 114, IROL_R |-> 116,
     ISWAP_R |-> 120, FSWAP_R |-> 124, FADD_R |-> 140, FADD_M |-> 145,
     FSUB_R |-> 161, FSUB_M |-> 166, FSCAL_R |-> 172, FMUL_R |-> 204,
     FDIV_M |-> 208, FSQRT_R |-> 214, CBRANCH |-> 239, CFROUND |-> 240,
     ISTORE |-> 256]

\* A plausible slip in the table: ISTORE ends at 0xff instead of 0x100.
Opcode_ISTORE_short ==
    [NOP |-> 0, IADD_RS |-> 16, IADD_M |-> 23, ISUB_R |-> 39, ISUB_M |-> 46,
     IMUL_R |-> 62, IMUL_M |-> 66, IMULH_R |-> 70, IMULH_M |-> 71,
     ISMULH_R |-> 75, ISMULH_M |-> 76, IMUL_RCP |-> 84, INEG_R |-> 86,
     IXOR_R |-> 101, IXOR_M |-> 106, IROR_R |-> 114, IROL_R |-> 116,
     ISWAP_R |-> 120, FSWAP_R |-> 124, FADD_R |-> 140, FADD_M |-> 145,
     FSUB_R |-> 161, FSUB_M |-> 166, FSCAL_R |-> 172, FMUL_R |-> 204,
     FDIV_M |-> 208, FSQRT_R |-> 214, CBRANCH |-> 239, CFROUND |-> 240,
     ISTORE |-> 255]

\* enum Opcode: the discriminant of every variant (Opcode::X as i64).
Opcode ==
    [NOP |-> 0, IADD_RS |-> 16, IADD_M |-> 23, ISUB_R |-> 39, ISUB_M |-> 46,
     IMUL_R |-> 62, IMUL_M |-> 66, IMULH_R |-> 70, IMULH_M |-> 71,
     ISMULH_R |-> 75, ISMULH_M |-> 76, IMUL_RCP |-> 84, INEG_R |-> 86,
     IXOR_R |-> 101, IXOR_M |-> 106, IROR_R |-> 114, IROL_R |-> 116,
     ISWAP_R |-> 120, FSWAP_R |-> 124, FADD_R |-> 140, FADD_M |-> 145,
     FSUB_R |-> 161, FSUB_M |-> 166, FSCAL_R |-> 172, FMUL_R |-> 204,
     FDIV_M |-> 208, FSQRT_R |-> 214, CBRANCH |-> 239, CFROUND |-> 240,
     ISTORE |-> 256]

-----------------------------------------------------------------------------
(* The data model: Store, Mode, Option<i32>, Instr.                        *)

Store_NONE == <<"NONE">>
Store_Imm == <<"i">>
L1(reg) == <<"L1">> \o reg
L2(reg) == <<"L2">> \o reg
L3(reg) == <<"L3">> \o reg

None == <<>>
Some(x) == <<x>>

Mode_None == [m |-> "None", x |-> 0]
Mode_Cond(x) == [m |-> "Cond", x |-> x]
Mode_Shft(x) == [m |-> "Shft", x |-> x]

\* struct Instr; effect is the fn pointer, nop in every constructor.
Instr(op, src, dst, imm, unsigned_imm, mode) ==
    [op |-> op, src |-> src, dst |-> dst, imm |-> imm,
     unsigned_imm |-> unsigned_imm, mode |-> mode, effect |-> "nop"]

-----------------------------------------------------------------------------
(* Integer helpers: two's complement on mathematical integers.             *)

\* x & m for a mask m >= 0 and a signed x.  \div and % round towards minus
\* infinity, so x \div 2 is the arithmetic shift of the two's complement x.
RECURSIVE BitAnd(_, _)
BitAnd(x, m) ==
    IF m = 0 THEN 0
    ELSE (x % 2) * (m % 2) + 2 * BitAnd(x \div 2, m \div 2)

\* x as i32 for the value of four bytes b0 (lowest) .. b3 (highest).
AsI32(b0, b1, b2, b3) ==
    (IF b3 >= 128 THEN b3 - 256 ELSE b3) * 16777216 + b2 * 65536 + b1 * 256 + b0

-----------------------------------------------------------------------------
(* Register and memory operand resolution.                                 *)

r_reg(dst) ==
    CASE dst % MAX_REG = 0 -> <<"r0">>
      [] dst % MAX_REG = 1 -> <<"r1">>
      [] dst % MAX_REG = 2 -> <<"r2">>
      [] dst % MAX_REG = 3 -> <<"r3">>
      [] dst % MAX_REG = 4 -> <<"r4">>
      [] dst % MAX_REG = 5 -> <<"r5">>
      [] dst % MAX_REG = 6 -> <<"r6">>
      [] dst % MAX_REG = 7 -> <<"r7">>
      [] OTHER -> <<"r0">>

a_reg(dst) ==
    CASE dst % MAX_FLOAT_REG = 0 -> <<"a0">>
      [] dst % MAX_FLOAT_REG = 1 -> <<"a1">>
      [] dst % MAX_FLOAT_REG = 2 -> <<"a2">>
      [] dst % MAX_FLOAT_REG = 3 -> <<"a3">>
      [] OTHER -> <<"a0">>

e_reg_ix(ix) ==
    CASE ix = 0 -> <<"e0">>
      [] ix = 1 -> <<"e1">>
      [] ix = 2 -> <<"e2">>
      [] ix = 3 -> <<"e3">>
      [] OTHER -> <<"e0">>

e_reg(dst) == e_reg_ix(dst % MAX_FLOAT_REG)

f_reg_ix(ix) ==
    CASE ix = 0 -> <<"f0">>
      [] ix = 1 -> <<"f1">>
      [] ix = 2 -> <<"f2">>
      [] ix = 3 -> <<"f3">>
      [] OTHER -> <<"f0">>

f_reg(dst) == f_reg_ix(dst % MAX_FLOAT_REG)

mod_mem_u8(modi) == modi % 4

mod_cond_u8(modi) == modi \div 16

mod_cond(modi) == Mode_Cond(mod_cond_u8(modi))

mod_shft(modi) == Mode_Shft((modi \div 4) % 4)

\* A plausible slip: <= for < at the L3 threshold.
l_cache_le(dst, modi) ==
    LET reg == r_reg(dst)
        cond == mod_cond_u8(modi)
    IN  IF cond <= STORE_L3_CONDITION
        THEN IF mod_mem_u8(modi) = 0 THEN L2(reg) ELSE L1(reg)
        ELSE L3(reg)

l_cache(dst, modi) ==
    LET reg == r_reg(dst)
        cond == mod_cond_u8(modi)
    IN  IF cond < STORE_L3_CONDITION
        THEN IF mod_mem_u8(modi) = 0 THEN L2(reg) ELSE L1(reg)
        ELSE L3(reg)

\* A plausible slip: the two tiers exchanged.
l12_cache_swapped(src, modi) ==
    LET reg == r_reg(src)
    IN  IF mod_mem_u8(modi) = 0 THEN L1(reg) ELSE L2(reg)

l12_cache(src, modi) ==
    LET reg == r_reg(src)
    IN  IF mod_mem_u8(modi) = 0 THEN L2(reg) ELSE L1(reg)

is_l_cache(store) == store[1] \in {"L1", "L2", "L3"}

-----------------------------------------------------------------------------
(* Instruction constructors.                                               *)

\* A plausible slip: the immediate attached whatever the operands are.
new_instr_always_imm(op, dst, src, imm, mode) ==
    IF src = dst
    THEN Instr(op, Store_NONE, dst, Some(imm), FALSE, mode)
    ELSE Instr(op, src, dst, Some(imm), FALSE, mode)

\* A plausible slip: the source kept when it equals the destination.
new_instr_keep_src(op, dst, src, imm, mode) ==
    IF src = dst
    THEN Instr(op, src, dst, Some(imm), FALSE, mode)
    ELSE Instr(op, src, dst, None, FALSE, mode)

new_instr(op, dst, src, imm, mode) ==
    IF src = dst
    THEN Instr(op, Store_NONE, dst, Some(imm), FALSE, mode)
    ELSE Instr(op, src, dst, None, FALSE, mode)

new_imm_instr(op, dst, imm, mode) ==
    Instr(op, Store_NONE, dst, Some(imm), FALSE, mode)

\* A plausible slip: no immediate on the two-tier form.
new_lcache_instr_no_imm(op, dst_reg, src, imm, modi) ==
    LET src_reg == r_reg(src)
    IN  IF src_reg = dst_reg
        THEN Instr(op, L3(Store_Imm), dst_reg,
                   Some(BitAnd(imm, SCRATCHPAD_L3_MASK)), FALSE, Mode_None)
        ELSE Instr(op, l12_cache(src, modi), dst_reg, None, FALSE, Mode_None)

new_lcache_instr(op, dst_reg, src, imm, modi) ==
    LET src_reg == r_reg(src)
    IN  IF src_reg = dst_reg
        THEN Instr(op, L3(Store_Imm), dst_reg,
                   Some(BitAnd(imm, SCRATCHPAD_L3_MASK)), FALSE, Mode_None)
        ELSE Instr(op, l12_cache(src, modi), dst_reg, Some(imm), FALSE, Mode_None)

-----------------------------------------------------------------------------
(* decode_instruction.                                                     *)

decode_instruction(w) ==
    LET op == w[1]
        dst == w[2]
        src == w[3]
        modi == w[4]
        imm == AsI32(w[5], w[6], w[7], w[8])
    IN
    IF op < Opcode.IADD_RS THEN
        LET dst_reg == r_reg(dst)
            imm_val == IF dst_reg = REG_NEEDS_DISPLACEMENT THEN Some(imm) ELSE None
        IN  Instr("IADD_RS", r_reg(src), dst_reg, imm_val, FALSE, mod_shft(modi))
    ELSE IF op < Opcode.IADD_M THEN
        new_lcache_instr("IADD_M", r_reg(dst), src, imm, modi)
    ELSE IF op < Opcode.ISUB_R THEN
        new_instr("ISUB_R", r_reg(dst), r_reg(src), imm, Mode_None)
    ELSE IF op < Opcode.ISUB_M THEN
        new_lcache_instr("ISUB_M", r_reg(dst), src, imm, modi)
    ELSE IF op < Opcode.IMUL_R THEN
        new_instr("IMUL_R", r_reg(dst), r_reg(src), imm, Mode_None)
    ELSE IF op < Opcode.IMUL_M THEN
        new_lcache_instr("IMUL_M", r_reg(dst), src, imm, modi)
    ELSE IF op < Opcode.IMULH_R THEN
        Instr("IMULH_R", r_reg(src), r_reg(dst), None, FALSE, Mode_None)
    ELSE IF op < Opcode.IMULH_M THEN
        new_lcache_instr("IMULH_M", r_reg(dst), src, imm, modi)
    ELSE IF op < Opcode.ISMULH_R THEN
        new_instr("ISMULH_R", r_reg(dst), r_reg(src), imm, Mode_None)
    ELSE IF op < Opcode.ISMULH_M THEN
        new_lcache_instr("ISMULH_M", r_reg(dst), src, imm, modi)
    ELSE IF op < Opcode.IMUL_RCP THEN
        [new_imm_instr("IMUL_RCP", r_reg(dst), imm, Mode_None)
            EXCEPT !.unsigned_imm = TRUE]
    ELSE IF op < Opcode.INEG_R THEN
        new_instr("INEG_R", r_reg(dst), Store_NONE, imm, Mode_None)
    ELSE IF op < Opcode.IXOR_R THEN
        new_instr("IXOR_R", r_reg(dst), r_reg(src), imm, Mode_None)
    ELSE IF op < Opcode.IXOR_M THEN
        new_lcache_instr("IXOR_M", r_reg(dst), src, imm, modi)
    ELSE IF op < Opcode.IROR_R THEN
        new_instr("IROR_R", r_reg(dst), r_reg(src), BitAnd(imm, 63), Mode_None)
    ELSE IF op < Opcode.IROL_R THEN
        new_instr("IROL_R", r_reg(dst), r_reg(src), BitAnd(imm, 63), Mode_None)
    ELSE IF op < Opcode.ISWAP_R THEN
        new_instr("ISWAP_R", r_reg(dst), r_reg(src), imm, Mode_None)
    ELSE IF op < Opcode.FSWAP_R THEN
        LET dst_ix == dst % MAX_REG
        IN  IF dst_ix >= MAX_FLOAT_REG
            THEN new_instr("FSWAP_R", e_reg_ix(dst_ix % MAX_FLOAT_REG),
                           Store_NONE, imm, Mode_None)
            ELSE new_instr("FSWAP_R", f_reg_ix(dst_ix % MAX_FLOAT_REG),
                           Store_NONE, imm, Mode_None)
    ELSE IF op < Opcode.FADD_R THEN
        new_instr("FADD_R", f_reg(dst), a_reg(src), imm, Mode_None)
    ELSE IF op < Opcode.FADD_M THEN
        new_lcache_instr("FADD_M", f_reg(dst), src, imm, modi)
    ELSE IF op < Opcode.FSUB_R THEN
        new_instr("FSUB_R", f_reg(dst), a_reg(src), imm, Mode_None)
    ELSE IF op < Opcode.FSUB_M THEN
        new_lcache_instr("FSUB_M", f_reg(dst), src, imm, modi)
    ELSE IF op < Opcode.FSCAL_R THEN
        new_instr("FSCAL_R", f_reg(dst), Store_NONE, imm, Mode_None)
    ELSE IF op < Opcode.FMUL_R THEN
        new_instr("FMUL_R", e_reg(dst), a_reg(src), imm, Mode_None)
    ELSE IF op < Opcode.FDIV_M THEN
        new_lcache_instr("FDIV_M", e_reg(dst), src, imm, modi)
    ELSE IF op < Opcode.FSQRT_R THEN
        new_instr("FSQRT_R", e_reg(dst), Store_NONE, imm, Mode_None)
    ELSE IF op < Opcode.CBRANCH THEN
        new_imm_instr("CBRANCH", r_reg(dst), imm, mod_cond(modi))
    ELSE IF op < Opcode.CFROUND THEN
        Instr("CFROUND", r_reg(src), Store_NONE, Some(BitAnd(imm, 63)), FALSE, Mode_None)
    ELSE IF op < Opcode.ISTORE THEN
        Instr("ISTORE", r_reg(src), l_cache(dst, modi), Some(imm), FALSE, Mode_None)
    ELSE
        new_instr("NOP", Store_NONE, Store_NONE, imm, Mode_None)

-----------------------------------------------------------------------------
(* impl fmt::Display for Instr.  A text is a string; PANIC is the outcome  *)
(* of instr.imm.unwrap() on None.                                        *)

PANIC == "panicked: called Option::unwrap() on a None value"

Cat(a, b) == IF a = PANIC \/ b = PANIC THEN PANIC ELSE a \o b

\* {} of a Store that is no memory reference: its strum name.
StoreText(store) == store[1]

\* {} of an i32.
I32Text(n) == ToString(n)

\* {:+} of an i32: the sign always written.
I32SignedText(n) == IF n >= 0 THEN "+" \o ToString(n) ELSE ToString(n)

Digit(n, p) == ToString((n \div p) % 10)

\* {} of (n as u32): n + 2^32 for a negative n, written in two halves of
\* decimal digits since 2^32 = 42949 * 10^5 + 67296.
U32Text(n) ==
    IF n >= 0 THEN ToString(n)
    ELSE LET a == (n + 2147483647) + 1
             r == (a % 100000) + 83648
             q == (a \div 100000) + 21474 + (r \div 100000)
             low == r % 100000
         IN  ToString(q) \o Digit(low, 10000) \o Digit(low, 1000)
                 \o Digit(low, 100) \o Digit(low, 10) \o Digit(low, 1)

\* impl fmt::Display for Mode.
ModeText(mode) ==
    CASE mode.m = "None" -> "NONE"
      [] mode.m = "Cond" -> "COND " \o ToString(mode.x)
      [] mode.m = "Shft" -> "SHFT " \o ToString(mode.x)

write_l_access(ins, reg, lstore) ==
    IF ins.imm = None THEN PANIC
    ELSE IF reg = Store_Imm
         THEN " " \o lstore \o "[" \o I32Text(ins.imm[1]) \o "]"
         ELSE " " \o lstore \o "[" \o StoreText(reg) \o I32SignedText(ins.imm[1]) \o "]"

Instr_fmt(ins) ==
    LET opText == ins.op
        dstText ==
            IF ins.dst = Store_NONE THEN ""
            ELSE IF is_l_cache(ins.dst)
                 THEN write_l_access(ins, Tail(ins.dst), ins.dst[1])
                 ELSE " " \o StoreText(ins.dst)
        srcText ==
            IF ins.src = Store_NONE THEN ""
            ELSE IF is_l_cache(ins.src)
                 THEN Cat(",", write_l_access(ins, Tail(ins.src), ins.src[1]))
                 ELSE IF ins.dst = Store_NONE
                      THEN " " \o StoreText(ins.src)
                      ELSE ", " \o StoreText(ins.src)
        immText ==
            IF ins.imm # None /\ ~(is_l_cache(ins.dst) \/ is_l_cache(ins.src))
            THEN IF ins.unsigned_imm
                 THEN ", " \o U32Text(ins.imm[1])
                 ELSE ", " \o I32Text(ins.imm[1])
            ELSE ""
        modeText ==
            IF ins.mode # Mode_None THEN ", " \o ModeText(ins.mode) ELSE ""
    IN  Cat(Cat(Cat(Cat(opText, dstText), srcText), immText), modeText)

-----------------------------------------------------------------------------
(* m128, the 128-bit entropy value, and from_bytes.                        *)

\* m128::to_i64: the pair (high word, low word) of the value.
to_i64(v) == <<SubSeq(v, 9, 16), SubSeq(v, 1, 8)>>

\* A plausible slip: the pair pushed in the order it was read.
loop_body_pair_order(prog, v) ==
    LET op2 == to_i64(v)[1]
        op1 == to_i64(v)[2]
        instr1 == decode_instruction(op1)
        instr2 == decode_instruction(op2)
    IN  Append(Append(prog, instr2), instr1)

\* One iteration of the loop of from_bytes over bytes[i] = v.
loop_body(prog, v) ==
    LET op2 == to_i64(v)[1]
        op1 == to_i64(v)[2]
        instr1 == decode_instruction(op1)
        instr2 == decode_instruction(op2)
    IN  Append(Append(prog, instr1), instr2)

-----------------------------------------------------------------------------
(* Bounds and the inputs drawn from them.                                  *)

MaxLen == 10
MaxRegByte == 8

\* dst and src bytes: every register index, the first wrap-around, a second
\* byte of r5 and the largest byte.
RegBytes == (0 .. MaxRegByte) \cup {13, 255}

\* Modifier bytes: memory-bank bits zero and non-zero, every shift, and
\* conditions on both sides of STORE_L3_CONDITION (13, 14, 15).
ModBytes == {0, 5, 219, 224, 255}

\* Immediates as four bytes, lowest first: 0x12345678, -16 and -2^31.
ImmBytes == {<<120, 86, 52, 18>>, <<240, 255, 255, 255>>, <<0, 0, 0, 128>>}

\* The word of an opcode byte, a dst byte, a src byte, a modifier byte and
\* the four bytes of an immediate.
Word(op, d, s, m, im) == <<op, d, s, m>> \o im

\* ISUB_R r1, r2 / ISTORE L3[r3-16], r5 / FADD_M f2, L1[r6-16]
WordA == <<30, 1, 2, 0, 120, 86, 52, 18>>
WordB == <<250, 3, 5, 224, 240, 255, 255, 255>>
WordC == <<142, 2, 6, 5, 240, 255, 255, 255>>

\* Entropy values: high and low word differ in each.
M128Values == {WordA \o WordB, WordC \o WordA, WordB \o WordC}

NoInstr == Instr("", Store_NONE, Store_NONE, None, FALSE, Mode_None)

-----------------------------------------------------------------------------
(* Specification Spec: one call of from_bytes.                             *)

Init ==
    /\ \E n \in 0 .. MaxLen : bytes \in [1 .. n -> M128Values]
    /\ overflow_checks \in BOOLEAN
    /\ i = 0
    /\ program = <<>>
    /\ panic = ""
    /\ pc = "start"
    /\ word = <<>>
    /\ instr = NoInstr
    /\ text = ""

\* let mut program = Vec::with_capacity((bytes.len() - 8) * 2);
\* bytes.len() is a usize.  Below 8 the subtraction overflows: a build with
\* overflow checks panics there; one without wraps to 2^64 - (8 - len), the
\* product wraps to 2^64 - 2 * (8 - len), and with_capacity panics since that
\* many Instr exceed isize::MAX bytes.
WithCapacity ==
    /\ pc = "start"
    /\ IF Len(bytes) < 8
       THEN /\ pc' = "panicked"
            /\ panic' = IF overflow_checks
                        THEN "attempt to subtract with overflow"
                        ELSE "capacity overflow"
            /\ UNCHANGED <<i, program>>
       ELSE /\ pc' = "loop"
            /\ i' = 8
            /\ program' = <<>>
            /\ UNCHANGED panic
    /\ UNCHANGED <<bytes, overflow_checks, word, instr, text>>

\* for i in 8..bytes.len() { ... }
LoopStep ==
    /\ pc = "loop"
    /\ i < Len(bytes)
    /\ program' = loop_body(program, bytes[i + 1])
    /\ i' = i + 1
    /\ UNCHANGED <<bytes, overflow_checks, panic, pc, word, instr, text>>

\* Program{program}
Return ==
    /\ pc = "loop"
    /\ i >= Len(bytes)
    /\ pc' = "done"
    /\ UNCHANGED <<bytes, overflow_checks, i, program, panic, word, instr, text>>

Next == WithCapacity \/ LoopStep \/ Return

Spec == Init /\ [][Next]_vars

-----------------------------------------------------------------------------
(* Specification SpecDecode: decode_instruction on one word, then the      *)
(* instruction written with Display.                                       *)

InitDecode ==
    /\ \E op \in 0 .. 255, d \in RegBytes, s \in RegBytes, m \in ModBytes,
          im \in ImmBytes : word = Word(op, d, s, m, im)
    /\ pc = "decode"
    /\ instr = NoInstr
    /\ text = ""
    /\ bytes = <<>>
    /\ overflow_checks = FALSE
    /\ i = 0
    /\ program = <<>>
    /\ panic = ""

Decode ==
    /\ pc = "decode"
    /\ instr' = decode_instruction(word)
    /\ pc' = "decoded"
    /\ UNCHANGED <<bytes, overflow_checks, i, program, panic, word, text>>

Disassemble ==
    /\ pc = "decoded"
    /\ text' = Instr_fmt(instr)
    /\ pc' = "printed"
    /\ UNCHANGED <<bytes, overflow_checks, i, program, panic, word, instr>>

NextDecode == Decode \/ Disassemble

SpecDecode == InitDecode /\ [][NextDecode]_vars

-----------------------------------------------------------------------------
(* Vocabulary of the properties.                                           *)

Decoded == pc \in {"decoded", "printed"}

OpByte == word[1]
DstByte == word[2]
SrcByte == word[3]
ModByte == word[4]

\* The raw immediate: bits 32-63 of the word as a signed 32-bit value.
RawImm == AsI32(word[5], word[6], word[7], word[8])

\* General register number n, 0 <= n <= 7.
GeneralReg(n) == <<"r" \o ToString(n)>>

GeneralRegs == {GeneralReg(n) : n \in 0 .. 7}

\* The two-tier rule on a modifier byte.
TwoTier(m) == IF m % 4 = 0 THEN "L2" ELSE "L1"

\* The table of exclusive upper bounds, in scan order.
ThresholdTable ==
    << <<16, "IADD_RS">>, <<23, "IADD_M">>, <<39, "ISUB_R">>, <<46, "ISUB_M">>,
       <<62, "IMUL_R">>, <<66, "IMUL_M">>, <<70, "IMULH_R">>, <<71, "IMULH_M">>,
       <<75, "ISMULH_R">>, <<76, "ISMULH_M">>, <<84, "IMUL_RCP">>,
       <<86, "INEG_R">>, <<101, "IXOR_R">>, <<106, "IXOR_M">>, <<114, "IROR_R">>,
       <<116, "IROL_R">>, <<120, "ISWAP_R">>, <<124, "FSWAP_R">>,
       <<140, "FADD_R">>, <<145, "FADD_M">>, <<161, "FSUB_R">>, <<166, "FSUB_M">>,
       <<172, "FSCAL_R">>, <<204, "FMUL_R">>, <<208, "FDIV_M">>,
       <<214, "FSQRT_R">>, <<239, "CBRANCH">>, <<240, "CFROUND">>,
       <<256, "ISTORE">> >>

\* The kind of the first bound the byte b is strictly below.
KindOfByte(b) ==
    LET below == {k \in 1 .. Len(ThresholdTable) : b < ThresholdTable[k][1]}
        first == CHOOSE k \in below : \A j \in below : k <= j
    IN  ThresholdTable[first][2]

NonNopKinds == {ThresholdTable[k][2] : k \in 1 .. Len(ThresholdTable)}

-----------------------------------------------------------------------------
(* C1.  The kind of a decoded instruction is the kind of the first bound   *)
(* of the table that the opcode byte is strictly below; the bounds ascend  *)
(* strictly; no other byte of the word takes part.                         *)

C1_KindFromOpcodeByte ==
    /\ \A k \in 1 .. Len(ThresholdTable) - 1 :
          ThresholdTable[k][1] < ThresholdTable[k + 1][1]
    /\ Decoded => instr.op = KindOfByte(OpByte)

\* The byte at a bound (0x42) belongs to the next kind, with the other
\* fields of the word all non-zero.
C1_Witness ==
    /\ Decoded
    /\ OpByte = 66 /\ instr.op = "IMULH_R"
    /\ DstByte # 0 /\ SrcByte # 0 /\ ModByte # 0

-----------------------------------------------------------------------------
(* C2.  from_bytes on N >= 8 values returns 2 * (N - 8) instructions; the  *)
(* first 8 values contribute nothing.                                      *)

\* The two 64-bit words of an entropy value.
HighWord(v) == SubSeq(v, 9, 16)
LowWord(v) == SubSeq(v, 1, 8)

\* C2 as stated: position 2k holds the instruction of the high (first) word
\* of value 8 + k and position 2k + 1 that of its low (second) word.
C2_HighWordFirst ==
    (pc = "done" /\ Len(bytes) >= 8) =>
        /\ Len(program) = 2 * (Len(bytes) - 8)
        /\ \A k \in 0 .. Len(bytes) - 9 :
              /\ program[2 * k + 1] = decode_instruction(HighWord(bytes[8 + k + 1]))
              /\ program[2 * k + 2] = decode_instruction(LowWord(bytes[8 + k + 1]))

\* C2 amended: position 2k holds the instruction of the low (second) word
\* of value 8 + k and position 2k + 1 that of its high (first) word.
C2_LowWordFirst ==
    (pc = "done" /\ Len(bytes) >= 8) =>
        /\ Len(program) = 2 * (Len(bytes) - 8)
        /\ \A k \in 0 .. Len(bytes) - 9 :
              /\ program[2 * k + 1] = decode_instruction(LowWord(bytes[8 + k + 1]))
              /\ program[2 * k + 2] = decode_instruction(HighWord(bytes[8 + k + 1]))

C2_Witness ==
    /\ pc = "done"
    /\ Len(bytes) = 10
    /\ Len(program) = 4
    /\ bytes[9] # bytes[10]
    /\ program[1] # program[2]

-----------------------------------------------------------------------------
(* C3.  from_bytes on fewer than 8 values completes without failure and    *)
(* returns an empty program.                                               *)

C3_BelowEightReturnsEmpty ==
    (Len(bytes) < 8 /\ pc # "start") => (pc = "done" /\ program = <<>>)

-----------------------------------------------------------------------------
(* C4.  Self-operand collapse of the register-register kinds.              *)

RegRegKinds ==
    {"IADD_RS", "ISUB_R", "IMUL_R", "IMULH_R", "ISMULH_R", "IXOR_R", "IROR_R",
     "IROL_R", "ISWAP_R", "FADD_R", "FSUB_R", "FMUL_R"}

\* The registers the dst and src bytes resolve to, by kind.
ResolvedDst ==
    IF instr.op \in {"FADD_R", "FSUB_R"} THEN <<"f" \o ToString(DstByte % 4)>>
    ELSE IF instr.op = "FMUL_R" THEN <<"e" \o ToString(DstByte % 4)>>
    ELSE GeneralReg(DstByte % 8)

ResolvedSrc ==
    IF instr.op \in {"FADD_R", "FSUB_R", "FMUL_R"}
    THEN <<"a" \o ToString(SrcByte % 4)>>
    ELSE GeneralReg(SrcByte % 8)

\* C4 as stated: in every register-register kind, equal resolved registers
\* give no source and the raw immediate; different ones keep the source.
C4_CollapseEveryRegRegKind ==
    (Decoded /\ instr.op \in RegRegKinds) =>
        IF ResolvedSrc = ResolvedDst
        THEN instr.src = Store_NONE /\ instr.imm = Some(RawImm)
        ELSE instr.src = ResolvedSrc

\* C4 amended: the collapse with the raw immediate holds for ISUB_R, IMUL_R,
\* ISMULH_R, IXOR_R and ISWAP_R; IROR_R and IROL_R collapse with the raw
\* immediate AND 63; IADD_RS and IMULH_R never collapse; whenever the
\* resolved registers differ the source is the resolved register.
C4_CollapseByKind ==
    (Decoded /\ instr.op \in RegRegKinds) =>
        IF ResolvedSrc # ResolvedDst THEN instr.src = ResolvedSrc
        ELSE IF instr.op \in {"ISUB_R", "IMUL_R", "ISMULH_R", "IXOR_R", "ISWAP_R"}
             THEN instr.src = Store_NONE /\ instr.imm = Some(RawImm)
        ELSE IF instr.op \in {"IROR_R", "IROL_R"}
             THEN instr.src = Store_NONE /\ instr.imm = Some(RawImm % 64)
        ELSE instr.op \in {"IADD_RS", "IMULH_R"} /\ instr.src = ResolvedSrc

\* A collapse through the wrap-around: dst byte and src byte differ and
\* resolve to the same register.
C4_Witness ==
    /\ Decoded
    /\ instr.op = "ISUB_R"
    /\ DstByte # SrcByte /\ ResolvedSrc = ResolvedDst
    /\ instr.src = Store_NONE /\ instr.imm = Some(RawImm)

-----------------------------------------------------------------------------
(* C5.  IADD_RS (opcode byte < 0x10) carries the raw immediate exactly     *)
(* when the destination is r5, whatever the source; its mode is SHFT with  *)
(* amount (modifier / 4) mod 4.                                            *)

C5_DisplacementOnlyR5 ==
    (Decoded /\ OpByte < 16) =>
        /\ instr.op = "IADD_RS"
        /\ IF DstByte % 8 = 5
           THEN instr.imm = Some(RawImm)
           ELSE instr.imm = None
        /\ instr.mode = Mode_Shft((ModByte \div 4) % 4)

\* r5 reached through dst byte 13, with a source that is not r5.
C5_Witness ==
    /\ Decoded
    /\ OpByte < 16 /\ DstByte = 13 /\ SrcByte % 8 # 5
    /\ instr.dst = <<"r5">> /\ instr.imm = Some(RawImm)
    /\ instr.mode = Mode_Shft(2)

-----------------------------------------------------------------------------
(* C6.  The source operand of the register-memory kinds.                   *)

IntMemKinds == {"IADD_M", "ISUB_M", "IMUL_M", "IMULH_M", "ISMULH_M", "IXOR_M"}
FloatMemKinds == {"FADD_M", "FSUB_M", "FDIV_M"}

\* C6.  Integer kinds: equal registers give L3 over the immediate-only marker
\* and the raw immediate AND 0x1FFFF8 (its bits 3-20); otherwise the
\* two-tier reference over the src register and the raw immediate.  Float
\* kinds: always the two-tier reference.
C6_MemorySource ==
    /\ (Decoded /\ instr.op \in IntMemKinds) =>
          IF SrcByte % 8 = DstByte % 8
          THEN /\ instr.src = <<"L3", "i">>
               /\ instr.imm = Some((RawImm % 2097152) - (RawImm % 8))
          ELSE /\ instr.src = <<TwoTier(ModByte)>> \o GeneralReg(SrcByte % 8)
               /\ instr.imm = Some(RawImm)
    /\ (Decoded /\ instr.op \in FloatMemKinds) =>
          instr.src = <<TwoTier(ModByte)>> \o GeneralReg(SrcByte % 8)

\* The scenario of the specification: a memory add whose src register is
\* its dst register, with raw immediate 0x12345678.
C6_Witness ==
    /\ Decoded
    /\ instr.op = "IADD_M"
    /\ DstByte = 0 /\ SrcByte = 8
    /\ RawImm = 305419896
    /\ instr.src = <<"L3", "i">> /\ instr.imm = Some(1332856)

-----------------------------------------------------------------------------
(* C7.  ISTORE (opcode byte 0xf0..0xff): the destination is a memory       *)
(* reference over the dst register, at L3 iff modifier / 16 >= 14 and at   *)
(* the two-tier rule below; the source is the src register, never          *)
(* collapsed; the raw immediate is attached.                               *)

C7_StoreShape ==
    (Decoded /\ OpByte \in 240 .. 255) =>
        /\ instr.op = "ISTORE"
        /\ instr.dst =
              <<IF ModByte \div 16 >= 14 THEN "L3" ELSE TwoTier(ModByte)>>
                  \o GeneralReg(DstByte % 8)
        /\ instr.src = GeneralReg(SrcByte % 8)
        /\ instr.imm = Some(RawImm)

\* A store at the threshold (condition field 14) whose source register is
\* the register its destination wraps.
C7_Witness ==
    /\ Decoded
    /\ instr.op = "ISTORE"
    /\ ModByte = 224
    /\ SrcByte % 8 = DstByte % 8
    /\ instr.dst[1] = "L3" /\ instr.src = GeneralReg(SrcByte % 8)

-----------------------------------------------------------------------------
(* C8.  INEG_R (opcode byte 0x54..0x55): destination the dst register, no  *)
(* source.                                                                 *)

\* C8 as stated: the raw immediate is attached.
C8_NegateHasImmediate ==
    (Decoded /\ OpByte \in 84 .. 85) =>
        /\ instr.op = "INEG_R"
        /\ instr.dst = GeneralReg(DstByte % 8)
        /\ instr.src = Store_NONE
        /\ instr.imm = Some(RawImm)

\* C8 amended: the immediate field is absent.
C8_NegateHasNoImmediate ==
    (Decoded /\ OpByte \in 84 .. 85) =>
        /\ instr.op = "INEG_R"
        /\ instr.dst = GeneralReg(DstByte % 8)
        /\ instr.src = Store_NONE
        /\ instr.imm = None

C8_Witness ==
    /\ pc = "printed"
    /\ OpByte = 85 /\ DstByte = 5
    /\ instr.op = "INEG_R" /\ instr.imm = None
    /\ text = "INEG_R r5"

-----------------------------------------------------------------------------
(* C9.  Whenever the destination or the source of a decoded instruction is *)
(* a memory reference, the immediate is present and the reference wraps a  *)
(* general register or the immediate-only marker; writing the instruction  *)
(* never unwraps an absent immediate.                                      *)

C9_DisassemblyCannotFail ==
    /\ Decoded =>
          \A st \in {instr.dst, instr.src} :
              is_l_cache(st) =>
                  /\ instr.imm # None
                  /\ Len(st) = 2
                  /\ <<st[2]>> \in GeneralRegs \cup {Store_Imm}
    /\ pc = "printed" => text # PANIC

\* The scenario of the specification: a store to L1 over r3 from r5 with
\* immediate -16.
C9_Witness ==
    /\ pc = "printed"
    /\ instr.dst = <<"L1", "r3">>
    /\ text = "ISTORE L1[r3-16], r5"

-----------------------------------------------------------------------------
(* C10.  No word decodes to NOP: every decoded instruction has one of the  *)
(* 29 kinds of the table.                                                  *)

C10_NeverNop ==
    /\ Cardinality(NonNopKinds) = 29
    /\ Decoded => (instr.op # "NOP" /\ instr.op \in NonNopKinds)

\* The largest opcode byte, at the last bound.
C10_Witness ==
    /\ Decoded
    /\ OpByte = 255
    /\ instr.op = "ISTORE"

====
